---- MODULE Spec2Model ----
(***************************************************************************)
(* Session lifecycle controller (signup, login, logout) and the auth       *)
(* middleware chain (protectRoute, adminRoute) of the e-commerce backend.  *)
(*                                                                         *)
(* src/backend/controllers/auth.controller.js holds several revisions of   *)
(* the controller one after the other; the model follows the complete one  *)
(* (lines 31-166).  src/backend/middleware/auth.middleware.js (lines 1-47) *)
(* is the middleware.  Request parsing (req.body, req.cookies), the jwt    *)
(* library, MongoDB and Redis are collaborators: their calls are modelled  *)
(* by what they do at the call sites.                                      *)
(*                                                                         *)
(* Every await of a handler is a scheduling point: one action applies the  *)
(* awaited I/O at the collaborator and runs the handler up to its next     *)
(* await (or to its response).  Each I/O may fail (ok = FALSE).            *)
(***************************************************************************)
EXTENDS Integers, FiniteSets, Sequences

VARIABLES
    users,      \* User Directory: the set of user documents
    nextId,     \* next _id the directory hands out
    store,      \* Redis: set of [key, value, exp] entries
    now,        \* wall clock, seconds
    ticks,      \* number of clock advances taken
    delivered,  \* tokens that reached a client in a cookie
    pc,         \* per request slot: where its handler is suspended
    req,        \* per request slot: the request being handled
    loc,        \* per request slot: the handler's local variables
    resp,       \* per request slot: the response sent
    ctx,        \* per request slot: req.user, and which stages were passed
    sent,       \* per request slot: number of responses sent for the request
    loginHist,  \* history: first user to log in, number of logins, cookie got
    loggedOut   \* history: users whose last session was ended by a logout answered 200

vars == <<users, nextId, store, now, ticks, delivered, pc, req, loc, resp, ctx,
          sent, loginHist, loggedOut>>

-----------------------------------------------------------------------------
(* Bounds of the model *)

MaxTicks == 2

\* only members whose _id is at most this are ever removed from the directory
MaxRemovedId == 1

Procs == {"p1", "p2"}

Emails == {"admin@x.com", "a@x.com"}

Password == "p1"

-----------------------------------------------------------------------------
(* Program constants *)

\* expiresIn: "15m"
AccessTTL == 15 * 60

\* expiresIn: "7d"
RefreshTTL == 7 * 24 * 60 * 60

\* redis.set(..., "EX", 7 * 24 * 60 * 60)
SessionTTL == 7 * 24 * 60 * 60

TickSteps == {AccessTTL, RefreshTTL}

-----------------------------------------------------------------------------
(* Credential signer: jwt.sign / jwt.verify *)

Absent == [kind |-> "absent", userId |-> -1, iat |-> 0, exp |-> 0]

Garbage == [kind |-> "garbage", userId |-> -1, iat |-> 0, exp |-> 0]

\* jwt.sign({ userId }, secret, { expiresIn }): the token is a function of the
\* payload, the secret (one per kind) and the second it is issued in.
jwtSign(userId, kind, ttl, t) ==
    [kind |-> kind, userId |-> userId, iat |-> t, exp |-> t + ttl]

generateTokens(userId, t) ==
    [accessToken  |-> jwtSign(userId, "access", AccessTTL, t),
     refreshToken |-> jwtSign(userId, "refresh", RefreshTTL, t)]

\* jwt.verify(token, secret): the signature is checked first, then the expiry.
jwtVerify(token, kind, t) ==
    IF token.kind # kind THEN "JsonWebTokenError"
    ELSE IF t >= token.exp THEN "TokenExpiredError"
    ELSE "ok"

-----------------------------------------------------------------------------
(* Session store: Redis *)

SessionKey(userId) == <<"refresh_token", userId>>

RedisSet_Append(s, key, value, ttl, t) ==
    s \cup {[key |-> key, value |-> value, exp |-> t + ttl]}

\* SET key value EX ttl: overwrites whatever the key held
RedisSet(s, key, value, ttl, t) ==
    {r \in s : r.key # key} \cup {[key |-> key, value |-> value, exp |-> t + ttl]}

RedisDel_Noop(s, key) == s

RedisDel_All(s, key) == {}

\* DEL key: no-op when the key is absent
RedisDel(s, key) == {r \in s : r.key # key}

\* keys past their EX are removed by Redis
RedisExpire(s, t) == {r \in s : r.exp > t}

storeRefreshToken_UndefinedKey(s, userId, refreshToken, t) ==
    RedisSet(s, SessionKey(-1), refreshToken, SessionTTL, t)

storeRefreshToken(s, userId, refreshToken, t) ==
    RedisSet(s, SessionKey(userId), refreshToken, SessionTTL, t)

SessionOf(userId) == {r \in store : r.key = SessionKey(userId)}

-----------------------------------------------------------------------------
(* Cookie transport and responses *)

NoUser == [_id |-> -1]

NoResp == [status |-> 0, message |-> "", newUser |-> NoUser,
           cookies |-> {}, cleared |-> {}]

setCookies(accessToken, refreshToken) ==
    {[name |-> "accessToken", value |-> accessToken],
     [name |-> "refreshToken", value |-> refreshToken]}

Json(status, message) ==
    [status |-> status, message |-> message, newUser |-> NoUser,
     cookies |-> {}, cleared |-> {}]

CookieOf(r, name) ==
    IF \E c \in r.cookies : c.name = name
    THEN (CHOOSE c \in r.cookies : c.name = name).value
    ELSE Absent

DbDown == "db unreachable"

RedisDown == "redis unreachable"

DupKey == "E11000 duplicate key error"

-----------------------------------------------------------------------------
(* User Directory: the User model *)

\* the pre-save hook stores a bcrypt hash, never the password itself
Hash(password) == "$2a$10$" \o password

AdminUser == [_id |-> 0, name |-> "admin", email |-> "admin@x.com",
              password |-> Hash(Password), role |-> "admin"]

UserFindOne(email) ==
    IF \E u \in users : u.email = email
    THEN CHOOSE u \in users : u.email = email
    ELSE NoUser

UserFindById(id) ==
    IF \E u \in users : u._id = id
    THEN CHOOSE u \in users : u._id = id
    ELSE NoUser

\* the document User.create resolves to: password hashed, role defaulted
UserCreate(id, body) ==
    [_id |-> id, name |-> body.name, email |-> body.email,
     password |-> Hash(body.password), role |-> "member"]

\* the unique index on email
UserCreateRejects(body) == \E u \in users : u.email = body.email

-----------------------------------------------------------------------------
(* Request slots *)

NoReq == [handler |-> "none", email |-> "", token |-> Absent, fresh |-> FALSE]

NoLoc == [userId |-> -1, tokens |-> generateTokens(-1, 0)]

NoCtx == [user |-> NoUser, passed |-> <<>>]

\* no response is waiting to be flushed: flushing a response touches nothing
\* another request reads, so it is taken first
Flushed == \A q \in Procs : pc[q] # "done"

Idle(p) == pc[p] = "idle" /\ Flushed

Begin(p, r, at) ==
    /\ req' = [req EXCEPT ![p] = r]
    /\ pc' = [pc EXCEPT ![p] = at]
    /\ ctx' = [ctx EXCEPT ![p] = NoCtx]

Respond(p, r) ==
    /\ resp' = [resp EXCEPT ![p] = r]
    /\ pc' = [pc EXCEPT ![p] = "done"]
    /\ delivered' = delivered \cup ({c.value : c \in r.cookies} \ {Absent})
    /\ sent' = [sent EXCEPT ![p] = @ + (IF r.status = 0 THEN 0 ELSE 1)]

Init ==
    /\ users = {AdminUser}
    /\ nextId = 1
    /\ store = storeRefreshToken({}, 0, generateTokens(0, 0).refreshToken, 0)
    /\ now = 0
    /\ ticks = 0
    /\ delivered = {generateTokens(0, 0).accessToken, generateTokens(0, 0).refreshToken}
    /\ pc = [p \in Procs |-> "idle"]
    /\ req = [p \in Procs |-> NoReq]
    /\ loc = [p \in Procs |-> NoLoc]
    /\ resp = [p \in Procs |-> NoResp]
    /\ ctx = [p \in Procs |-> NoCtx]
    /\ sent = [p \in Procs |-> 0]
    /\ loginHist = [user |-> "", count |-> 0, cookie |-> Absent]
    /\ loggedOut = {}

\* the response is flushed and the request's objects are released
Close(p) ==
    /\ pc[p] = "done"
    /\ pc' = [pc EXCEPT ![p] = "idle"]
    /\ req' = [req EXCEPT ![p] = NoReq]
    /\ loc' = [loc EXCEPT ![p] = NoLoc]
    /\ resp' = [resp EXCEPT ![p] = NoResp]
    /\ ctx' = [ctx EXCEPT ![p] = NoCtx]
    /\ sent' = [sent EXCEPT ![p] = 0]
    /\ UNCHANGED <<users, nextId, store, now, ticks, delivered, loginHist, loggedOut>>

\* time passes; expired keys leave the store
Tick(d) ==
    /\ Flushed
    /\ ticks < MaxTicks
    /\ ticks' = ticks + 1
    /\ now' = now + d
    /\ store' = RedisExpire(store, now + d)
    /\ UNCHANGED <<users, nextId, delivered, pc, req, loc, resp, ctx, sent, loginHist, loggedOut>>

-----------------------------------------------------------------------------
(* signup *)

SignupBody_Whole(newUser) == newUser

\* the newUser object of the 201 response
SignupBody(newUser) ==
    [f \in {"_id", "name", "email", "role"} |-> newUser[f]]

UserExists_Never(user) == FALSE

\* if (user)
UserExists(user) == user # NoUser

SignupCatch_CookiesFirst(message, tokens) ==
    [Json(500, message) EXCEPT !.cookies = setCookies(tokens.accessToken, tokens.refreshToken)]

\* catch (error) { res.status(500).json({ message: error.message }) }: when
\* storeRefreshToken throws, setCookies has not run
SignupCatch(message, tokens) == Json(500, message)

SignupStart(p, email) ==
    /\ Idle(p)
    /\ Begin(p, [handler |-> "signup", email |-> email, token |-> Absent,
                 fresh |-> UserFindOne(email) = NoUser], "signup_findOne")
    /\ resp' = [resp EXCEPT ![p] = NoResp]
    /\ UNCHANGED <<users, nextId, store, now, ticks, delivered, loc, sent, loginHist, loggedOut>>

\* await User.findOne({ email }); if (user) return 400
SignupFindOne(p, ok) ==
    /\ pc[p] = "signup_findOne" /\ Flushed
    /\ IF ~ok THEN Respond(p, Json(500, DbDown))
       ELSE IF UserExists(UserFindOne(req[p].email))
            THEN Respond(p, Json(400, "User already exists"))
            ELSE /\ pc' = [pc EXCEPT ![p] = "signup_create"]
                 /\ UNCHANGED <<resp, delivered, sent>>
    /\ UNCHANGED <<users, nextId, store, now, ticks, req, loc, ctx, loginHist, loggedOut>>

\* await User.create({ name, email, password }); generateTokens(newUser._id)
SignupCreate(p, ok) ==
    /\ pc[p] = "signup_create" /\ Flushed
    /\ LET body == [name |-> "n", email |-> req[p].email, password |-> Password]
       IN IF ~ok
          THEN Respond(p, Json(500, DbDown)) /\ UNCHANGED <<users, nextId, loc>>
          ELSE IF UserCreateRejects(body)
          THEN Respond(p, Json(500, DupKey)) /\ UNCHANGED <<users, nextId, loc>>
          ELSE /\ users' = users \cup {UserCreate(nextId, body)}
               /\ nextId' = nextId + 1
               /\ loc' = [loc EXCEPT ![p] = [userId |-> nextId,
                                             tokens |-> generateTokens(nextId, now)]]
               /\ pc' = [pc EXCEPT ![p] = "signup_store"]
               /\ UNCHANGED <<resp, delivered, sent>>
    /\ UNCHANGED <<store, now, ticks, req, ctx, loginHist, loggedOut>>

\* await storeRefreshToken(newUser._id, refreshToken); setCookies; 201
SignupStore(p, ok, hist) ==
    /\ pc[p] = "signup_store" /\ Flushed
    /\ LET t == loc[p].tokens
           newUser == UserFindById(loc[p].userId)
       IN IF ~ok
          THEN Respond(p, SignupCatch(RedisDown, t)) /\ UNCHANGED <<store, loggedOut>>
          ELSE /\ store' = storeRefreshToken(store, loc[p].userId, t.refreshToken, now)
               /\ loggedOut' = IF hist THEN loggedOut \ {loc[p].userId} ELSE loggedOut
               /\ Respond(p, [status |-> 201, message |-> "User created successfully",
                              newUser |-> SignupBody(newUser),
                              cookies |-> setCookies(t.accessToken, t.refreshToken),
                              cleared |-> {}])
    /\ UNCHANGED <<users, nextId, now, ticks, req, loc, ctx, loginHist>>

-----------------------------------------------------------------------------
(* login *)

\* res.send("Login route called"): no token is minted, the session store is
\* not touched and no cookie is attached
LoginResponse == Json(200, "Login route called")

LoginSeen(h, email, r) ==
    IF UserFindOne(email) = NoUser THEN h
    ELSE IF h.count = 0
         THEN [user |-> email, count |-> 1, cookie |-> CookieOf(r, "refreshToken")]
    ELSE IF h.user = email /\ h.count = 1
         THEN [h EXCEPT !.count = 2]
    ELSE h

Login(p, email, hist) ==
    /\ Idle(p)
    /\ Begin(p, [handler |-> "login", email |-> email, token |-> Absent,
                 fresh |-> FALSE], "done")
    /\ resp' = [resp EXCEPT ![p] = LoginResponse]
    /\ sent' = [sent EXCEPT ![p] = @ + 1]
    /\ delivered' = delivered \cup ({c.value : c \in LoginResponse.cookies} \ {Absent})
    /\ loginHist' = IF hist THEN LoginSeen(loginHist, email, LoginResponse) ELSE loginHist
    /\ UNCHANGED <<users, nextId, store, now, ticks, loc, loggedOut>>

-----------------------------------------------------------------------------
(* logout *)

VerifyMessage(outcome) ==
    IF outcome = "TokenExpiredError" THEN "jwt expired" ELSE "jwt malformed"

\* res.clearCookie("accessToken"); res.clearCookie("refreshToken"); 200
LogoutOk ==
    [status |-> 200, message |-> "Logout successful", newUser |-> NoUser,
     cookies |-> {}, cleared |-> {"accessToken", "refreshToken"}]

\* catch (error) { res.status(500).json({ message: error.message }) }
LogoutCatch(message) == Json(500, message)

HasToken_Always(token) == TRUE

\* if (refreshToken) / if (!acccessToken)
HasToken(token) == token # Absent

RefreshCookies == {t \in delivered : t.kind = "refresh"} \cup {Garbage, Absent}

AccessCookies == {t \in delivered : t.kind = "access"} \cup {Garbage, Absent}

\* req.cookies.refreshToken; jwt.verify(refreshToken, REFRESH_TOKEN_SECRET)
LogoutStart(p, token) ==
    /\ Idle(p)
    /\ LET r == [handler |-> "logout", email |-> "", token |-> token, fresh |-> FALSE]
           v == jwtVerify(token, "refresh", now)
       IN IF ~HasToken(token)
          THEN Begin(p, r, "done") /\ UNCHANGED loc /\ Respond(p, LogoutOk)
          ELSE IF v # "ok"
          THEN Begin(p, r, "done") /\ UNCHANGED loc /\ Respond(p, LogoutCatch(VerifyMessage(v)))
          ELSE /\ Begin(p, r, "logout_del")
               /\ loc' = [loc EXCEPT ![p] = [NoLoc EXCEPT !.userId = token.userId]]
               /\ resp' = [resp EXCEPT ![p] = NoResp]
               /\ UNCHANGED <<delivered, sent>>
    /\ UNCHANGED <<users, nextId, store, now, ticks, loginHist, loggedOut>>

\* await redis.del(`refresh_token:${decoded.userId}`); clear cookies; 200
LogoutDel(p, ok, hist) ==
    /\ pc[p] = "logout_del" /\ Flushed
    /\ LET u == loc[p].userId
       IN IF ~ok
          THEN /\ Respond(p, LogoutCatch(RedisDown))
               /\ UNCHANGED loggedOut
               /\ UNCHANGED store
          ELSE /\ store' = RedisDel(store, SessionKey(u))
               /\ loggedOut' = IF hist THEN loggedOut \cup {u} ELSE loggedOut
               /\ Respond(p, LogoutOk)
    /\ UNCHANGED <<users, nextId, now, ticks, req, loc, ctx, loginHist>>

-----------------------------------------------------------------------------
(* protectRoute, adminRoute: router.get("/", protectRoute, adminRoute, getAllProducts) *)

SelectWithoutPassword_Whole(user) == user

\* .select("-password")
SelectWithoutPassword(user) ==
    IF user = NoUser THEN NoUser
    ELSE [f \in DOMAIN user \ {"password"} |-> user[f]]

IsAdmin_AnyUser(user) == user # NoUser

\* if (req.user && req.user.role === "admin")
IsAdmin(user) == user # NoUser /\ user.role = "admin"

adminRoute_NoElse(p, c) ==
    /\ ctx' = [ctx EXCEPT ![p] = IF IsAdmin(c.user)
                                  THEN [c EXCEPT !.passed = Append(c.passed, "adminRoute")]
                                  ELSE c]
    /\ Respond(p, Json(403, "Access denied - Admin only"))

\* adminRoute(req, res, next): next() or 403
adminRoute(p, c) ==
    IF IsAdmin(c.user)
    THEN /\ ctx' = [ctx EXCEPT ![p] = [c EXCEPT !.passed = Append(c.passed, "adminRoute")]]
         /\ Respond(p, NoResp)
    ELSE /\ ctx' = [ctx EXCEPT ![p] = c]
         /\ Respond(p, Json(403, "Access denied - Admin only"))

\* the catch of the inner try: TokenExpiredError is answered 401, anything
\* else is thrown again and answered 500 by the outer catch
ProtectCatch(errorName) ==
    IF errorName = "TokenExpiredError"
    THEN Json(401, "Unauthorized - User not found")
    ELSE Json(500, "Server error")

VerifyAccess_SessionChecked(token, t) ==
    IF jwtVerify(token, "access", t) = "ok" /\ SessionOf(token.userId) = {}
    THEN "JsonWebTokenError"
    ELSE jwtVerify(token, "access", t)

\* jwt.verify(accessToken, process.env.ACCESS_TOKEN_SECRET): the signature
\* and the expiry, nothing of the session store
VerifyAccess(token, t) == jwtVerify(token, "access", t)

ProtectStart(p, token) ==
    /\ Idle(p)
    /\ LET r == [handler |-> "protectRoute", email |-> "", token |-> token, fresh |-> FALSE]
           v == VerifyAccess(token, now)
       IN IF ~HasToken(token)
          THEN Begin(p, r, "done") /\ UNCHANGED loc /\ Respond(p, Json(401, "Unauthorized - No access token"))
          ELSE IF v # "ok"
          THEN Begin(p, r, "done") /\ UNCHANGED loc /\ Respond(p, ProtectCatch(v))
          ELSE /\ Begin(p, r, "protect_findById")
               /\ loc' = [loc EXCEPT ![p] = [NoLoc EXCEPT !.userId = token.userId]]
               /\ resp' = [resp EXCEPT ![p] = NoResp]
               /\ UNCHANGED <<delivered, sent>>
    /\ UNCHANGED <<users, nextId, store, now, ticks, loginHist, loggedOut>>

\* await User.findById(decoded.userId).select("-password"); req.user = user; next()
ProtectFindById(p, ok) ==
    /\ pc[p] = "protect_findById" /\ Flushed
    /\ LET user == SelectWithoutPassword(UserFindById(loc[p].userId))
       IN IF ~ok
          THEN Respond(p, ProtectCatch("MongoError")) /\ UNCHANGED ctx
          ELSE IF user = NoUser
          THEN Respond(p, Json(401, "Unauthorized - User not found")) /\ UNCHANGED ctx
          ELSE adminRoute(p, [user |-> user, passed |-> <<"protectRoute">>])
    /\ UNCHANGED <<users, nextId, store, now, ticks, req, loc, loginHist, loggedOut>>

-----------------------------------------------------------------------------
(* refresh: the handler the design describes; the controller has none *)

RefreshStart(p, token) ==
    /\ Idle(p)
    /\ LET r == [handler |-> "refresh", email |-> "", token |-> token, fresh |-> FALSE]
       IN IF token = Absent
          THEN Begin(p, r, "done") /\ UNCHANGED loc /\ Respond(p, Json(401, "NoToken"))
          ELSE IF jwtVerify(token, "refresh", now) # "ok"
          THEN Begin(p, r, "done") /\ UNCHANGED loc /\ Respond(p, Json(401, "BadToken"))
          ELSE /\ Begin(p, r, "refresh_get")
               /\ loc' = [loc EXCEPT ![p] = [NoLoc EXCEPT !.userId = token.userId]]
               /\ resp' = [resp EXCEPT ![p] = NoResp]
               /\ UNCHANGED <<delivered, sent>>
    /\ UNCHANGED <<users, nextId, store, now, ticks, loginHist, loggedOut>>

RefreshGet(p, ok) ==
    /\ pc[p] = "refresh_get" /\ Flushed
    /\ LET u == loc[p].userId
       IN IF ~ok THEN Respond(p, Json(500, RedisDown))
          ELSE IF ~(\E r \in SessionOf(u) : r.value = req[p].token)
          THEN Respond(p, Json(401, "StaleToken"))
          ELSE Respond(p, [status |-> 200, message |-> "Token refreshed", newUser |-> NoUser,
                           cookies |-> {[name |-> "accessToken",
                                         value |-> jwtSign(u, "access", AccessTTL, now)]},
                           cleared |-> {}])
    /\ UNCHANGED <<users, nextId, store, now, ticks, req, loc, ctx, loginHist, loggedOut>>

-----------------------------------------------------------------------------

Next ==
    \/ \E d \in TickSteps : Tick(d)
    \/ \E p \in Procs : Close(p)
    \/ \E p \in Procs, e \in Emails : SignupStart(p, e)
    \/ \E p \in Procs, ok \in BOOLEAN : SignupFindOne(p, ok)
    \/ \E p \in Procs, ok \in BOOLEAN : SignupCreate(p, ok)
    \/ \E p \in Procs, ok \in BOOLEAN : SignupStore(p, ok, FALSE)
    \/ \E p \in Procs, e \in Emails : Login(p, e, FALSE)
    \/ \E p \in Procs, t \in RefreshCookies : LogoutStart(p, t)
    \/ \E p \in Procs, ok \in BOOLEAN : LogoutDel(p, ok, FALSE)
    \/ \E p \in Procs, t \in AccessCookies : ProtectStart(p, t)
    \/ \E p \in Procs, ok \in BOOLEAN : ProtectFindById(p, ok)

Spec == Init /\ [][Next]_vars

\* the continuation of the handler suspended in slot p, once its awaited
\* promise settles, fulfilled or rejected
Resume(p) ==
    \/ \E ok \in BOOLEAN : SignupFindOne(p, ok)
    \/ \E ok \in BOOLEAN : SignupCreate(p, ok)
    \/ \E ok \in BOOLEAN : SignupStore(p, ok, FALSE)
    \/ \E ok \in BOOLEAN : LogoutDel(p, ok, FALSE)
    \/ \E ok \in BOOLEAN : ProtectFindById(p, ok)

\* every awaited promise settles and the event loop runs its continuation;
\* every response sent is flushed
SpecFair ==
    /\ Init /\ [][Next]_vars
    /\ \A p \in Procs : SF_vars(Resume(p)) /\ WF_vars(Close(p))

\* the session lifecycle (the protected route changes nothing it reads), with
\* the logouts recorded
NextSession ==
    \/ \E d \in TickSteps : Tick(d)
    \/ \E p \in Procs : Close(p)
    \/ \E p \in Procs, e \in Emails : SignupStart(p, e)
    \/ \E p \in Procs, ok \in BOOLEAN : SignupFindOne(p, ok)
    \/ \E p \in Procs, ok \in BOOLEAN : SignupCreate(p, ok)
    \/ \E p \in Procs, ok \in BOOLEAN : SignupStore(p, ok, TRUE)
    \/ \E p \in Procs, e \in Emails : Login(p, e, FALSE)
    \/ \E p \in Procs, t \in RefreshCookies : LogoutStart(p, t)
    \/ \E p \in Procs, ok \in BOOLEAN : LogoutDel(p, ok, TRUE)

SpecSession == Init /\ [][NextSession]_vars

\* logins and refreshes, with the logins recorded
NextLogin ==
    \/ \E d \in TickSteps : Tick(d)
    \/ \E p \in Procs : Close(p)
    \/ \E p \in Procs, e \in Emails : SignupStart(p, e)
    \/ \E p \in Procs, ok \in BOOLEAN : SignupFindOne(p, ok)
    \/ \E p \in Procs, ok \in BOOLEAN : SignupCreate(p, ok)
    \/ \E p \in Procs, ok \in BOOLEAN : SignupStore(p, ok, FALSE)
    \/ \E p \in Procs, e \in Emails : Login(p, e, TRUE)
    \/ \E p \in Procs, t \in RefreshCookies : RefreshStart(p, t)
    \/ \E p \in Procs, ok \in BOOLEAN : RefreshGet(p, ok)

SpecLogin == Init /\ [][NextLogin]_vars

\* storeRefreshToken on its own: any sequence of calls, for any user, with
\* a refresh token minted now or at time 0, while time passes
StoreUsers == {0, 1}

StorePut(p, u, iat) ==
    /\ Idle(p)
    /\ Begin(p, [handler |-> "storeRefreshToken", email |-> "",
                 token |-> generateTokens(u, iat).refreshToken, fresh |-> FALSE], "done")
    /\ loc' = [loc EXCEPT ![p] = [NoLoc EXCEPT !.userId = u]]
    /\ store' = storeRefreshToken(store, u, generateTokens(u, iat).refreshToken, now)
    /\ resp' = [resp EXCEPT ![p] = NoResp]
    /\ UNCHANGED <<users, nextId, now, ticks, delivered, sent, loginHist, loggedOut>>

NextStore ==
    \/ \E d \in TickSteps : Tick(d)
    \/ \E p \in Procs : Close(p)
    \/ \E p \in Procs, u \in StoreUsers, iat \in {0, now} : StorePut(p, u, iat)

SpecStore == Init /\ [][NextStore]_vars

\* logout against a store written by any sequence of storeRefreshToken calls:
\* the record of a user may hold a newer token than the cookie presented
NextLogoutStore ==
    \/ NextStore
    \/ \E p \in Procs, t \in RefreshCookies : LogoutStart(p, t)
    \/ \E p \in Procs, ok \in BOOLEAN : LogoutDel(p, ok, FALSE)

SpecLogoutStore == Init /\ [][NextLogoutStore]_vars

\* the directory's owner removes a user document; the core never does
DirectoryRemove(u) ==
    /\ Flushed
    /\ u \in users
    /\ u.role # "admin"
    /\ u._id <= MaxRemovedId
    /\ \A p \in Procs : pc[p] = "signup_store" => loc[p].userId # u._id
    /\ users' = users \ {u}
    /\ UNCHANGED <<nextId, store, now, ticks, delivered, pc, req, loc, resp, ctx,
                   sent, loginHist, loggedOut>>

\* the protected route while users sign up and user documents are removed
NextRoute ==
    \/ \E d \in TickSteps : Tick(d)
    \/ \E p \in Procs : Close(p)
    \/ \E p \in Procs, e \in Emails : SignupStart(p, e)
    \/ \E p \in Procs, ok \in BOOLEAN : SignupFindOne(p, ok)
    \/ \E p \in Procs, ok \in BOOLEAN : SignupCreate(p, ok)
    \/ \E p \in Procs, ok \in BOOLEAN : SignupStore(p, ok, FALSE)
    \/ \E p \in Procs, t \in AccessCookies : ProtectStart(p, t)
    \/ \E p \in Procs, ok \in BOOLEAN : ProtectFindById(p, ok)
    \/ \E u \in users : DirectoryRemove(u)

SpecRoute == Init /\ [][NextRoute]_vars

\* the session lifecycle and the protected route, with the logouts recorded
NextAccess ==
    \/ NextSession
    \/ \E p \in Procs, t \in AccessCookies : ProtectStart(p, t)
    \/ \E p \in Procs, ok \in BOOLEAN : ProtectFindById(p, ok)

SpecAccess == Init /\ [][NextAccess]_vars

\* adminRoute on its own: mounted with or without a stage before it that
\* attaches req.user
AdminStage(p, user) ==
    /\ Idle(p)
    /\ req' = [req EXCEPT ![p] = [handler |-> "adminRoute", email |-> "",
                                  token |-> Absent, fresh |-> FALSE]]
    /\ adminRoute(p, [user |-> user, passed |-> <<>>])
    /\ UNCHANGED <<users, nextId, store, now, ticks, loc, loginHist, loggedOut>>

NextAdmin ==
    \/ \E p \in Procs : Close(p)
    \/ \E p \in Procs, e \in Emails : SignupStart(p, e)
    \/ \E p \in Procs, ok \in BOOLEAN : SignupFindOne(p, ok)
    \/ \E p \in Procs, ok \in BOOLEAN : SignupCreate(p, ok)
    \/ \E p \in Procs, ok \in BOOLEAN : SignupStore(p, ok, FALSE)
    \/ \E p \in Procs, user \in {NoUser} \cup {SelectWithoutPassword(u) : u \in users} :
           AdminStage(p, user)

SpecAdmin == Init /\ [][NextAdmin]_vars

-----------------------------------------------------------------------------
(* Properties.  A property that does not speak of a collaborator failing is  *)
(* stated for requests whose I/O was answered.                               *)

Done(p, handler) == pc[p] = "done" /\ req[p].handler = handler

Answered(p) == resp[p].message \notin {DbDown, RedisDown}

StoredValues(userId) == {r.value : r \in SessionOf(userId)}

\* C1: the session store never holds two records under one user's key, and
\* after storeRefreshToken(userId, token) the only value stored for userId is
\* token: whatever refresh token was stored for the user before is replaced.
C1_SingleSessionRecord ==
    /\ \A r1, r2 \in store : r1.key = r2.key => r1 = r2
    /\ \A p \in Procs :
          Done(p, "storeRefreshToken") => StoredValues(loc[p].userId) = {req[p].token}

\* a token minted later replaced the token user 0 held since time 0; the
\* earlier record can have left neither by expiry nor by deletion
C1_Replaced ==
    \E p \in Procs :
        /\ Done(p, "storeRefreshToken")
        /\ loc[p].userId = 0
        /\ now < SessionTTL
        /\ req[p].token # generateTokens(0, 0).refreshToken
        /\ StoredValues(0) = {req[p].token}

\* C2: once the same user has logged in twice, a refresh presented with the
\* refresh token the first login delivered is answered 401 StaleToken.
C2_FirstLoginTokenStale ==
    \A p \in Procs :
        (Done(p, "refresh") /\ loginHist.count = 2 /\ req[p].token = loginHist.cookie)
            => (resp[p].status = 401 /\ resp[p].message = "StaleToken")

\* C3: every logout response clears both cookies, whether there was no
\* refresh token, it verified, or its verification or the delete failed.
C3_LogoutAlwaysClears ==
    \A p \in Procs :
        Done(p, "logout") => resp[p].cleared = {"accessToken", "refreshToken"}

\* C4: when a logout carrying a valid refresh token of user u has completed
\* (the store having answered the delete), no session record exists for u,
\* and none exists for as long as no session is stored for u again: a refresh
\* with that token finds no stored value to match.
C4_LogoutEndsSession ==
    /\ \A p \in Procs :
          (Done(p, "logout") /\ HasToken(req[p].token) /\ loc[p].userId # -1 /\ Answered(p))
              => (SessionOf(loc[p].userId) = {} /\ loc[p].userId \in loggedOut)
    /\ \A u \in loggedOut : SessionOf(u) = {}

\* a logout answered 200 whose refresh token is still validly signed and
\* unexpired: only the missing record makes it useless
C4_LoggedOutTokenStillValid ==
    \E p \in Procs :
        /\ Done(p, "logout") /\ resp[p].status = 200 /\ loc[p].userId # -1
        /\ req[p].token \in delivered
        /\ loc[p].userId \in loggedOut
        /\ jwtVerify(req[p].token, "refresh", now) = "ok"

\* C5: a signup answered 201 has created the user it returns, and the session
\* record stored for that user's _id is the refresh token of the response's
\* refreshToken cookie; cookies are attached to no other signup response.
C5_SignupStoresDeliveredToken ==
    \A p \in Procs :
        Done(p, "signup") =>
            /\ resp[p].status = 201 =>
                  /\ \E u \in users : /\ u.email = req[p].email
                                      /\ u._id = resp[p].newUser._id
                                      /\ u._id = loc[p].userId
                  /\ CookieOf(resp[p], "refreshToken") = loc[p].tokens.refreshToken
                  /\ StoredValues(resp[p].newUser._id) = {CookieOf(resp[p], "refreshToken")}
            /\ resp[p].status # 201 => resp[p].cookies = {}

C5_SignedUp ==
    \E p \in Procs : Done(p, "signup") /\ resp[p].status = 201 /\ req[p].fresh

\* C6: a signup whose email belonged to a user when the request arrived is
\* answered 400 with no cookie, and no step of it changes the user directory,
\* the session store or the tokens delivered.
C6_TakenEmailInv ==
    \A p \in Procs :
        (Done(p, "signup") /\ ~req[p].fresh /\ Answered(p))
            => /\ resp[p].status = 400
               /\ resp[p].message = "User already exists"
               /\ resp[p].cookies = {}
               /\ resp[p].newUser = NoUser

C6_TakenEmailStep ==
    \A p \in Procs :
        (req[p].handler = "signup" /\ ~req[p].fresh /\ pc'[p] # pc[p])
            => (users' = users /\ store' = store /\ delivered' = delivered)

\* C6: the two parts together: the answer of such a signup, and each of its steps
C6_SignupTakenEmailChangesNothing == [](C6_TakenEmailInv) /\ [][C6_TakenEmailStep]_vars

C6_TakenEmailRejected ==
    \E p \in Procs : Done(p, "signup") /\ ~req[p].fresh /\ resp[p].status = 400

\* C7: of two signups for one email that both found it unused, one is
\* answered 201 and the other 400: every signup that found the email unused
\* when it arrived ends 201 or 400, and one user holds the email afterwards.
C7_RacingSignupsOneWinsOther400 ==
    \A p \in Procs :
        (Done(p, "signup") /\ req[p].fresh /\ Answered(p))
            => /\ resp[p].status \in {201, 400}
               /\ Cardinality({u \in users : u.email = req[p].email}) = 1

\* C8: no signup response carries the password or its hash, on any path.
C8_NoPasswordInSignupResponse ==
    \A p \in Procs :
        Done(p, "signup") =>
            /\ "password" \notin DOMAIN resp[p].newUser
            /\ \A f \in DOMAIN resp[p].newUser \ {"_id"} :
                  resp[p].newUser[f] \notin {Password, Hash(Password)}
            /\ resp[p].message # Password

C8_SignupReturnedIdentity ==
    \E p \in Procs :
        /\ Done(p, "signup")
        /\ resp[p].status = 201
        /\ DOMAIN resp[p].newUser = {"_id", "name", "email", "role"}
        /\ resp[p].newUser.email = "a@x.com"

\* C9: a request to the protected route without accessToken cookie is
\* answered 401 "No access token"; next is not invoked and no identity is
\* attached.
C9_NoTokenRejected ==
    \A p \in Procs :
        (Done(p, "protectRoute") /\ req[p].token = Absent)
            => /\ resp[p].status = 401
               /\ resp[p].message = "Unauthorized - No access token"
               /\ ctx[p].passed = <<>>
               /\ ctx[p].user = NoUser

C9_NoTokenRequest ==
    \E p \in Procs :
        Done(p, "protectRoute") /\ req[p].token = Absent /\ resp[p].status = 401

\* C10: an access token that fails verification, expired or invalid, is
\* answered 401 and next is not invoked.
C10_BadTokenIs401 ==
    \A p \in Procs :
        (Done(p, "protectRoute") /\ req[p].token # Absent /\ loc[p].userId = -1)
            => (resp[p].status = 401 /\ ctx[p].passed = <<>>)

\* router.get("/", protectRoute, adminRoute, getAllProducts)
RouteChain == <<"protectRoute", "adminRoute">>

\* getAllProducts runs once every stage of the chain has invoked next
HandlerReached(p) == Len(ctx[p].passed) = Len(RouteChain)

\* the access token verified: its claims were decoded
Verified(p) == Done(p, "protectRoute") /\ loc[p].userId # -1

\* the directory lookup of protectRoute was answered
LookupAnswered(p) == resp[p].message # "Server error"

\* C11: when the access token verifies and the directory holds no user with
\* its userId, the answer is 401 "User not found", no identity is attached and
\* next is not invoked; when it holds one, that user without the password
\* field is attached and protectRoute has invoked next.
C11_UserLookupDecides ==
    \A p \in Procs :
        (Verified(p) /\ LookupAnswered(p)) =>
            LET u == UserFindById(loc[p].userId)
            IN IF u = NoUser
               THEN /\ resp[p].status = 401
                    /\ resp[p].message = "Unauthorized - User not found"
                    /\ ctx[p].user = NoUser
                    /\ ctx[p].passed = <<>>
               ELSE /\ ctx[p].user = [f \in DOMAIN u \ {"password"} |-> u[f]]
                    /\ "password" \notin DOMAIN ctx[p].user
                    /\ ctx[p].passed # <<>>
                    /\ Head(ctx[p].passed) = "protectRoute"
                    /\ resp[p].status # 401

\* a token that verifies, of a user removed since it was issued
C11_RemovedUserRejected ==
    \E p \in Procs :
        /\ Verified(p)
        /\ req[p].token \in delivered
        /\ UserFindById(loc[p].userId) = NoUser
        /\ resp[p].status = 401

\* C12: adminRoute invokes next exactly when req.user is set and its role is
\* admin; otherwise, also when no identity is attached, it answers 403
\* "Admin only" and does not invoke next.
C12_AdminOnlyFailsClosed ==
    \A p \in Procs :
        Done(p, "adminRoute") =>
            IF ctx[p].user # NoUser /\ ctx[p].user.role = "admin"
            THEN ctx[p].passed = <<"adminRoute">> /\ resp[p].status = 0
            ELSE /\ ctx[p].passed = <<>>
                 /\ resp[p].status = 403
                 /\ resp[p].message = "Access denied - Admin only"

\* adminRoute reached with no identity attached
C12_NoIdentity ==
    \E p \in Procs :
        Done(p, "adminRoute") /\ ctx[p].user = NoUser /\ resp[p].status = 403

\* C13: on the admin-only route the stages invoke next in the order of the
\* chain, and the handler is reached only with a verified token whose user
\* is an admin: a member's valid token is answered 403 after protectRoute
\* alone has passed, an admin's valid token reaches the handler.
C13_HandlerOnlyAfterBothStages ==
    \A p \in Procs :
        Done(p, "protectRoute") =>
            /\ ctx[p].passed \in {<<>>, SubSeq(RouteChain, 1, 1), RouteChain}
            /\ HandlerReached(p) =>
                  /\ Verified(p)
                  /\ ctx[p].user # NoUser
                  /\ ctx[p].user.role = "admin"
                  /\ ctx[p].user._id = req[p].token.userId
                  /\ resp[p].status = 0
            /\ (Verified(p) /\ ctx[p].user # NoUser /\ ctx[p].user.role # "admin") =>
                  /\ ctx[p].passed = <<"protectRoute">>
                  /\ resp[p].status = 403
            /\ (Verified(p) /\ LookupAnswered(p)
                  /\ UserFindById(loc[p].userId) # NoUser
                  /\ UserFindById(loc[p].userId).role = "admin") => HandlerReached(p)

\* a member's valid token stopped by adminRoute
C13_MemberStoppedAt403 ==
    \E p \in Procs :
        /\ Verified(p)
        /\ ctx[p].user # NoUser
        /\ ctx[p].user.role = "member"
        /\ ctx[p].passed = <<"protectRoute">>
        /\ resp[p].status = 403

\* C14: when the session store rejects the write of signup, the answer is
\* 500, it carries no accessToken or refreshToken cookie, and the tokens
\* minted for the request never reach a client.
C14_StoreDownNoCredentials ==
    \A p \in Procs :
        (Done(p, "signup") /\ resp[p].message = RedisDown) =>
            /\ resp[p].status = 500
            /\ resp[p].cookies = {}
            /\ loc[p].userId # -1
            /\ loc[p].tokens.accessToken \notin delivered
            /\ loc[p].tokens.refreshToken \notin delivered
            /\ SessionOf(loc[p].userId) = {}

\* a signup that created its user and minted tokens, then lost the store
C14_StoreWriteFailed ==
    \E p \in Procs :
        /\ Done(p, "signup")
        /\ resp[p].message = RedisDown
        /\ loc[p].tokens = generateTokens(loc[p].userId, now)
        /\ UserFindById(loc[p].userId) # NoUser

\* the causes of a credential failure in protectRoute
Cause(p) ==
    IF req[p].token = Absent THEN "NoToken"
    ELSE IF loc[p].userId = -1 THEN "BadToken"
    ELSE IF LookupAnswered(p) /\ ctx[p].user = NoUser THEN "UserNotFound"
    ELSE "None"

\* the lookup of a verified token threw
LookupThrew(p) == Verified(p) /\ ~LookupAnswered(p)

\* C15: in protectRoute a lookup that throws is answered 500, never 401,
\* and next is not invoked; a credential failure (no token, a token that
\* fails verification, no such user) is never answered 500.
C15_FailuresNotConflated ==
    \A p \in Procs :
        Done(p, "protectRoute") =>
            /\ LookupThrew(p) =>
                  (resp[p].status = 500 /\ resp[p].status # 401 /\ ctx[p].passed = <<>>)
            /\ Cause(p) # "None" => resp[p].status # 500

\* what protectRoute answers for each cause, as <<status, reason>>
ReasonsFor(cause) ==
    IF cause = "NoToken" THEN {<<401, "Unauthorized - No access token">>}
    ELSE IF cause = "BadToken"
    THEN {<<ProtectCatch(e).status, ProtectCatch(e).message>> :
             e \in {"TokenExpiredError", "JsonWebTokenError"}}
    ELSE IF cause = "UserNotFound" THEN {<<401, "Unauthorized - User not found">>}
    ELSE {}

\* C16: the status and reason of a credential failure identify its cause:
\* no answer to a request failing for one cause is an answer protectRoute
\* gives for another cause.
C16_ReasonIdentifiesCause ==
    \A p \in Procs :
        (Done(p, "protectRoute") /\ Cause(p) # "None") =>
            /\ <<resp[p].status, resp[p].message>> \in ReasonsFor(Cause(p))
            /\ \A other \in {"NoToken", "BadToken", "UserNotFound"} \ {Cause(p)} :
                  <<resp[p].status, resp[p].message>> \notin ReasonsFor(other)

\* C17: logout revokes no access token. A request to the protected route
\* carrying an access token of a user who has logged out is verified unless
\* the token has expired, and then, the user still existing, protectRoute
\* attaches the user and invokes next; it is rejected only when expired.
C17_LogoutKeepsAccessTokens ==
    \A p \in Procs :
        (Done(p, "protectRoute") /\ req[p].token \in delivered
            /\ req[p].token.kind = "access" /\ req[p].token.userId \in loggedOut) =>
            /\ now < req[p].token.exp => Verified(p)
            /\ ~Verified(p) =>
                  /\ now >= req[p].token.exp
                  /\ resp[p].status = 401
            /\ (Verified(p) /\ LookupAnswered(p)) =>
                  /\ ctx[p].user # NoUser
                  /\ ctx[p].user._id = req[p].token.userId
                  /\ Head(ctx[p].passed) = "protectRoute"

\* an access token accepted after its user logged out, no session record left
C17_AcceptedAfterLogout ==
    \E p \in Procs :
        /\ Verified(p)
        /\ req[p].token.userId \in loggedOut
        /\ SessionOf(req[p].token.userId) = {}
        /\ ctx[p].passed # <<>>
        /\ ctx[p].user._id = req[p].token.userId

\* the outcomes of signup, logout, protectRoute and adminRoute, counted:
\* a handler still suspended has sent nothing
\* and invoked nothing; signup and logout end with one response; on the
\* route each stage invokes next at most once, in the order of the chain,
\* and the one response is sent by the first stage that does not invoke
\* next, none when every stage did.
C18_OneOutcome ==
    \A p \in Procs :
        /\ sent[p] <= 1
        /\ pc[p] \notin {"idle", "done"} => (sent[p] = 0 /\ ctx[p].passed = <<>>)
        /\ (Done(p, "signup") \/ Done(p, "logout")) =>
              (sent[p] = 1 /\ resp[p].status # 0 /\ ctx[p].passed = <<>>)
        /\ Done(p, "protectRoute") =>
              LET n == Len(ctx[p].passed)
              IN /\ n <= Len(RouteChain)
                 /\ ctx[p].passed = SubSeq(RouteChain, 1, n)
                 /\ sent[p] = IF n = Len(RouteChain) THEN 0 ELSE 1
                 /\ (sent[p] = 1) = (resp[p].status # 0)

\* no invocation ends with neither: every handler that is suspended ends
C18_Terminates ==
    \A p \in Procs : (pc[p] \notin {"idle", "done"}) ~> (pc[p] = "done")

\* C18: every invocation of signup, logout, protectRoute and adminRoute
\* terminates, and with exactly one outcome: one response sent, or for a
\* middleware stage next invoked once; never both, never two responses,
\* never neither.
C18_ExactlyOneOutcome == []C18_OneOutcome /\ C18_Terminates

\* protectRoute invoked next and adminRoute sent the one response
C18_NextThenOneResponse ==
    \E p \in Procs :
        /\ Done(p, "protectRoute")
        /\ ctx[p].passed = <<"protectRoute">>
        /\ sent[p] = 1
        /\ resp[p].status = 403

\* C19: a logout whose refresh token verified for user u and whose delete
\* was answered removes the session record of u whatever value it holds,
\* also a newer token than the one presented, and leaves every record of
\* another user in the store.
C19_LogoutDeletesByUserId ==
    [][\A p \in Procs :
          (pc[p] = "logout_del" /\ pc'[p] = "done" /\ resp'[p].status = 200) =>
              /\ req[p].token.kind = "refresh"
              /\ loc[p].userId = req[p].token.userId
              /\ {r \in store' : r.key = SessionKey(loc[p].userId)} = {}
              /\ {r \in store : r.key # SessionKey(loc[p].userId)} = store'
      ]_vars

\* a logout that verified an older token of u is about to delete u's record,
\* which holds a newer token, while another user has a record too
C19_OlderTokenNewerRecord ==
    \E p \in Procs :
        /\ pc[p] = "logout_del"
        /\ req[p].token \in delivered
        /\ \E r \in SessionOf(loc[p].userId) :
              r.value # req[p].token /\ r.value.iat > req[p].token.iat
        /\ \E r \in store : r.key # SessionKey(loc[p].userId)

\* a user created by a signup whose store write failed: no token of the
\* user was ever handed out and no signup is still about to store one
Orphaned(u) ==
    /\ u \in users
    /\ \A t \in delivered : t.userId # u._id
    /\ \A p \in Procs : pc[p] = "signup_store" => loc[p].userId # u._id

\* C20: signup is not atomic. When the user is created and the store write
\* then fails, the answer is 500, the user document stays and has no session
\* record, and it stays so; every signup that starts later with that email
\* and is answered is refused with 400 "User already exists".
C20_SignupNotAtomic ==
    /\ \A p \in Procs :
          (Done(p, "signup") /\ resp[p].message = RedisDown) =>
              /\ resp[p].status = 500
              /\ \E u \in users :
                    /\ u._id = loc[p].userId
                    /\ u.email = req[p].email
                    /\ Orphaned(u)
    /\ \A u \in users : Orphaned(u) => SessionOf(u._id) = {}
    /\ \A p \in Procs :
          (Done(p, "signup") /\ Answered(p) /\ ~req[p].fresh
              /\ UserFindOne(req[p].email) \in users
              /\ Orphaned(UserFindOne(req[p].email))) =>
              /\ resp[p].status = 400
              /\ resp[p].message = "User already exists"
              /\ loc[p].userId = -1

\* a later signup with the email of a user left without session record
C20_OrphanBlocksEmail ==
    \E p \in Procs :
        /\ Done(p, "signup")
        /\ ~req[p].fresh
        /\ resp[p].status = 400
        /\ UserFindOne(req[p].email) \in users
        /\ Orphaned(UserFindOne(req[p].email))

====
